---------------------------- MODULE Spec2Model ----------------------------
(***************************************************************************)
(* A model of the AFSMC simulation-and-control engine:                     *)
(*   unified_controller.py  (hfn_mu, hfn_beta, compute_omega)              *)
(*   afsmc_simulation.py    (wrap_angle, simulate_case1, simulate_case2,   *)
(*                           simulate_case1_with_scenario)                 *)
(*   afsmc_plots.py         (compute_settling_time)                        *)
(*                                                                         *)
(* Python floats are modelled in fixed point: the integer n stands for the *)
(* real n / Q.  Products and quotients round to the nearest unit.          *)
(***************************************************************************)
EXTENDS Integers, Sequences, FiniteSets, TLC

\* ------------------------------------------------------------------------
\* Bounds of the model
\* ------------------------------------------------------------------------

\* fixed-point resolution: units per 1.0
Q == 100

\* breakpoints of the enumerated HFN tuples are G * (0..MaxXi)
MaxXi == 2

\* longest error series handed to the metrics
MaxLen == 4

\* most simulation runs one process executes in a row
MaxRuns == 2

\* ------------------------------------------------------------------------
\* Fixed-point arithmetic
\* ------------------------------------------------------------------------

Abs(a) == IF a < 0 THEN -a ELSE a

Sgn(a) == IF a < 0 THEN -1 ELSE IF a > 0 THEN 1 ELSE 0

\* n / d rounded to the nearest integer, symmetric about 0 (d # 0)
RDiv(n, d) == Sgn(n) * Sgn(d) * ((2 * Abs(n) + Abs(d)) \div (2 * Abs(d)))

\* a * b and a / b of two fixed-point numbers
Mul(a, b) == RDiv(a * b, Q)

Div(a, b) == RDiv(a * Q, b)

\* int(a / b): Python's float division followed by truncation toward zero
TruncDiv(a, b) == Sgn(a) * Sgn(b) * (Abs(a) \div Abs(b))

RECURSIVE SqrtIter(_, _, _)
SqrtIter(n, lo, hi) ==
    IF lo >= hi THEN lo
    ELSE LET mid == (lo + hi + 1) \div 2
         IN  IF mid * mid <= n THEN SqrtIter(n, mid, hi)
             ELSE SqrtIter(n, lo, mid - 1)

\* np.hypot(a, b) = sqrt(a^2 + b^2), rounded down to a unit
Hypot(a, b) == SqrtIter(a * a + b * b, 0, Abs(a) + Abs(b))

\* np.pi and multiples
PI == (355 * Q) \div 113

TwoPi == 2 * PI

HalfPi == PI \div 2

\* sin on [0, pi] by Bhaskara's rational approximation
SinHalf(r) == RDiv(16 * r * (PI - r) * Q, 5 * PI * PI - 4 * r * (PI - r))

\* np.sin, np.cos, np.tan
Sin(a) ==
    LET r == a % TwoPi
    IN  IF r <= PI THEN SinHalf(r) ELSE -SinHalf(r - PI)

Cos(a) == Sin(a + HalfPi)

Tan(a) == IF Cos(a) = 0 THEN Sgn(Sin(a)) * 1000 * Q ELSE Div(Sin(a), Cos(a))

\* np.tanh: odd, increasing, saturating at +-1 (Pade form below 3, +-1 beyond)
Tanh(z) ==
    IF z >= 3 * Q THEN Q
    ELSE IF z <= -3 * Q THEN -Q
    ELSE RDiv(z * (27 * Q * Q + z * z), 27 * Q * Q + 9 * z * z)

\* r ** gamma for a whole exponent gamma >= 1
RECURSIVE Pow(_, _)
Pow(r, gamma) == IF gamma <= 1 THEN r ELSE Mul(r, Pow(r, gamma - 1))

\* arctan on [0, 1]: z * (pi/4 + 0.273 * (1 - z))
AtanUnit(z) == Mul(z, PI \div 4 + Mul((273 * Q) \div 1000, Q - z))

\* np.arctan2(y, x), in (-pi, pi]; arctan2(0, 0) = 0
Atan2(y, x) ==
    IF x = 0 /\ y = 0 THEN 0
    ELSE LET base == IF Abs(y) <= Abs(x) THEN AtanUnit(Div(Abs(y), Abs(x)))
                     ELSE HalfPi - AtanUnit(Div(Abs(x), Abs(y)))
         IN  IF x >= 0 THEN Sgn(y) * base
             ELSE IF y >= 0 THEN PI - base
             ELSE base - PI

Min(a, b) == IF a <= b THEN a ELSE b

Max(a, b) == IF a >= b THEN a ELSE b

\* np.clip(val, lo, hi)
NpClip(val, lo, hi) == Min(Max(val, lo), hi)

\* "if val > hi: val = hi / elif val < lo: val = lo"
ClampIfElif(val, lo, hi) == IF val > hi THEN hi ELSE IF val < lo THEN lo ELSE val

\* np.zeros(n): indices 0..n-1
Zeros(n) == [i \in 0..(n - 1) |-> 0]

\* np.linspace(0.0, stop, n)[i] for n >= 1
LinspaceAt(stop, n, i) ==
    IF n = 1 THEN 0
    ELSE IF i = n - 1 THEN stop
    ELSE RDiv(i * stop, n - 1)

Linspace(stop, n) == [i \in 0..(n - 1) |-> LinspaceAt(stop, n, i)]

\* the global numpy random state: a small linear congruential generator
RngNext(r) == (5 * r + 3) % 16

\* np.random.seed(n)
RngSeed(n) == n % 16

\* a sample that does not scale with std
RngNormal_Unscaled(r, std) == ((r % 5) - 2) * (Q \div 2)

\* the sample np.random.normal(0, std) returns in state r: std * z, z in -1..1
RngNormal(r, std) == Mul(std, ((r % 5) - 2) * (Q \div 2))

\* ------------------------------------------------------------------------
\* Strings: a mode is a sequence of characters; str.upper()
\* ------------------------------------------------------------------------

LowerCase == <<"a", "c", "d", "f", "i", "m", "p", "s">>

UpperCase == <<"A", "C", "D", "F", "I", "M", "P", "S">>

UpperChar(c) ==
    IF \E i \in 1..Len(LowerCase) : LowerCase[i] = c
    THEN UpperCase[CHOOSE i \in 1..Len(LowerCase) : LowerCase[i] = c]
    ELSE c

Upper(str) == [i \in 1..Len(str) |-> UpperChar(str[i])]

SMC == <<"S", "M", "C">>

AFSMC == <<"A", "F", "S", "M", "C">>

\* ------------------------------------------------------------------------
\* unified_controller.py
\* ------------------------------------------------------------------------

\* outcome of a call: a value or a raised exception
Ret(v) == [ok |-> TRUE, val |-> v]

Raise(e) == [ok |-> FALSE, err |-> e]

\* spacing of the default breakpoints (0.05)
G == Q \div 20

DefaultBreakpoints == <<0, G, 2 * G, 3 * G, 4 * G, 5 * G>>

\* ControllerParams() with its dataclass defaults
DefaultCtrl ==
    [lambda_ |-> Q, l2 |-> Q \div 2, k_I |-> 0, phi1 |-> Q, phi2 |-> Q,
     delta |-> Q \div 2, beta_min |-> Q \div 2, beta_max |-> 3 * Q,
     hfn_breakpoints |-> DefaultBreakpoints]

\* hfn_mu with the lower cut-off written x < xi1
hfn_mu_StrictLower(x, xi, gamma) ==
    IF Len(xi) # 6 THEN Raise("ValueError: unpack")
    ELSE IF x < xi[1] \/ x >= xi[6] THEN Ret(0)
    ELSE IF xi[1] < x /\ x <= xi[2] THEN Ret(Pow(Div(x - xi[1], xi[2] - xi[1]), gamma))
    ELSE IF xi[2] < x /\ x <= xi[4] THEN Ret(Q)
    ELSE IF xi[4] < x /\ x <= xi[5] THEN Ret(Pow(Div(xi[5] - x, xi[5] - xi[4]), gamma))
    ELSE IF xi[6] - xi[5] = 0 THEN Raise("ZeroDivisionError")
    ELSE Ret(Pow(Div(xi[6] - x, xi[6] - xi[5]), gamma))

\* hfn_mu with the plateau ending at xi3
hfn_mu_ShortPlateau(x, xi, gamma) ==
    IF Len(xi) # 6 THEN Raise("ValueError: unpack")
    ELSE IF x <= xi[1] \/ x >= xi[6] THEN Ret(0)
    ELSE IF xi[1] < x /\ x <= xi[2] THEN Ret(Pow(Div(x - xi[1], xi[2] - xi[1]), gamma))
    ELSE IF xi[2] < x /\ x <= xi[3] THEN Ret(Q)
    ELSE IF xi[3] < x /\ x <= xi[5] THEN Ret(Pow(Div(xi[5] - x, xi[5] - xi[3]), gamma))
    ELSE Ret(Pow(Div(xi[6] - x, xi[6] - xi[5]), gamma))

\* hfn_mu without the upper cut-off x >= xi6
hfn_mu_NoUpperCut(x, xi, gamma) ==
    IF Len(xi) # 6 THEN Raise("ValueError: unpack")
    ELSE IF x <= xi[1] THEN Ret(0)
    ELSE IF xi[1] < x /\ x <= xi[2] THEN Ret(Pow(Div(x - xi[1], xi[2] - xi[1]), gamma))
    ELSE IF xi[2] < x /\ x <= xi[4] THEN Ret(Q)
    ELSE IF xi[4] < x /\ x <= xi[5] THEN Ret(Pow(Div(xi[5] - x, xi[5] - xi[4]), gamma))
    ELSE IF xi[6] - xi[5] = 0 THEN Raise("ZeroDivisionError")
    ELSE Ret(Pow(Div(xi[6] - x, xi[6] - xi[5]), gamma))

hfn_mu(x, xi, gamma) ==
    IF Len(xi) # 6 THEN Raise("ValueError: unpack")
    ELSE IF x <= xi[1] \/ x >= xi[6] THEN Ret(0)
    ELSE IF xi[1] < x /\ x <= xi[2] THEN
        IF xi[2] - xi[1] = 0 THEN Raise("ZeroDivisionError")
        ELSE Ret(Pow(Div(x - xi[1], xi[2] - xi[1]), gamma))
    ELSE IF xi[2] < x /\ x <= xi[3] THEN Ret(Q)
    ELSE IF xi[3] < x /\ x <= xi[4] THEN Ret(Q)
    ELSE IF xi[4] < x /\ x <= xi[5] THEN
        IF xi[5] - xi[4] = 0 THEN Raise("ZeroDivisionError")
        ELSE Ret(Pow(Div(xi[5] - x, xi[5] - xi[4]), gamma))
    ELSE
        IF xi[6] - xi[5] = 0 THEN Raise("ZeroDivisionError")
        ELSE Ret(Pow(Div(xi[6] - x, xi[6] - xi[5]), gamma))

\* the error magnitude |e| + 0.5 |e_dot| that hfn_beta hands to hfn_mu
ErrMagnitude(e, e_dot) == Abs(e) + RDiv(Abs(e_dot), 2)

hfn_beta(e, e_dot, params, gamma) ==
    LET x  == ErrMagnitude(e, e_dot)
        mu == hfn_mu(x, params.hfn_breakpoints, gamma)
    IN  IF ~mu.ok THEN mu
        ELSE Ret(params.beta_min + Mul(params.beta_max - params.beta_min, mu.val))

\* the sliding surface s
SlidingSurface(y_e, e_theta, int_e_theta, params) ==
    Mul(Mul(params.lambda_, params.phi1), y_e)
    + Mul(Mul(params.l2, params.phi2), e_theta)
    + Mul(params.k_I, int_e_theta)

\* the gain selection with the classical gain as the fallback strategy
ChooseBeta_Defaulting(mode, y_e, e_theta, y_e_dot, e_theta_dot, params, gamma_hfn) ==
    IF Upper(mode) = AFSMC THEN
        hfn_beta(Hypot(y_e, e_theta), Hypot(y_e_dot, e_theta_dot), params, gamma_hfn)
    ELSE Ret(params.beta_max)

\* the gain selection with the adaptive gain used in both modes
ChooseBeta_AdaptiveInSMC(mode, y_e, e_theta, y_e_dot, e_theta_dot, params, gamma_hfn) ==
    IF Upper(mode) \in {SMC, AFSMC} THEN
        hfn_beta(Hypot(y_e, e_theta), Hypot(y_e_dot, e_theta_dot), params, gamma_hfn)
    ELSE Raise("ValueError: Unknown mode")

\* the gain selection: beta_eff, or the raised exception
ChooseBeta(mode, y_e, e_theta, y_e_dot, e_theta_dot, params, gamma_hfn) ==
    IF Upper(mode) = SMC THEN Ret(params.beta_max)
    ELSE IF Upper(mode) = AFSMC THEN
        hfn_beta(Hypot(y_e, e_theta), Hypot(y_e_dot, e_theta_dot), params, gamma_hfn)
    ELSE Raise("ValueError: Unknown mode")

\* compute_omega with the linear switching term beta_eff * s / delta
compute_omega_LinearSwitch(mode, y_e, e_theta, int_e_theta, y_e_dot, e_theta_dot, omega_eq, params, gamma_hfn) ==
    LET s    == SlidingSurface(y_e, e_theta, int_e_theta, params)
        beta == ChooseBeta(mode, y_e, e_theta, y_e_dot, e_theta_dot, params, gamma_hfn)
    IN  IF ~beta.ok THEN beta
        ELSE LET sw == Mul(beta.val, Div(s, params.delta))
             IN  Ret([omega_cmd |-> omega_eq - sw, s |-> s, beta_eff |-> beta.val])

compute_omega(mode, y_e, e_theta, int_e_theta, y_e_dot, e_theta_dot, omega_eq, params, gamma_hfn) ==
    LET s    == SlidingSurface(y_e, e_theta, int_e_theta, params)
        beta == ChooseBeta(mode, y_e, e_theta, y_e_dot, e_theta_dot, params, gamma_hfn)
    IN  IF ~beta.ok THEN beta
        ELSE LET sw == Mul(beta.val, Tanh(Div(s, params.delta)))
             IN  Ret([omega_cmd |-> omega_eq - sw, s |-> s, beta_eff |-> beta.val])

\* ------------------------------------------------------------------------
\* afsmc_simulation.py
\* ------------------------------------------------------------------------

\* wrap_angle with the modulo result mapped onto (-pi, pi]
wrap_angle_UpperClosed(angle) ==
    LET w == ((angle + PI) % TwoPi) - PI
    IN  IF w = -PI THEN PI ELSE w

\* Python's float % with a positive divisor yields a value in [0, divisor)
wrap_angle(angle) == ((angle + PI) % TwoPi) - PI

\* RobotParams(), MotorParams() with their dataclass defaults
DefaultRobot ==
    [mass |-> (18 * Q) \div 10, length |-> (306 * Q) \div 1000,
     width |-> (281 * Q) \div 1000, wheel_spacing |-> (287 * Q) \div 1000,
     wheel_radius |-> (66 * Q) \div 1000, inertia |-> (135 * Q) \div 100]

DefaultMotor ==
    [v_max |-> (7 * Q) \div 2, a_max |-> 5 * Q, zeta |-> (2 * Q) \div 5,
     omega_n |-> 3 * Q]

\* n_steps = int(case.t_end / case.dt) + 1   (dt # 0)
NSteps(case) == TruncDiv(case.t_end, case.dt) + 1

\* v_ddot = -2 zeta omega_n v_dot - omega_n^2 (v_state - v_ref)
VDdot(vs, vd, v_ref, motor) ==
    - Mul(Mul(Mul(2 * Q, motor.zeta), motor.omega_n), vd)
    - Mul(Mul(motor.omega_n, motor.omega_n), vs - v_ref)

\* the motor update of simulate_case1 / simulate_case2 without the zero clamp
Actuator_NoZeroClamp(vs, vd, v_ref, motor, dt) ==
    LET vd1 == ClampIfElif(vd + Mul(VDdot(vs, vd, v_ref, motor), dt),
                           -motor.a_max, motor.a_max)
        vs1 == vs + Mul(vd1, dt)
    IN  [v_dot |-> vd1, v_state |-> IF vs1 > motor.v_max THEN motor.v_max ELSE vs1]

\* the motor update of simulate_case1 / simulate_case2: new (v_dot, v_state)
Actuator(vs, vd, v_ref, motor, dt) ==
    LET vd1 == ClampIfElif(vd + Mul(VDdot(vs, vd, v_ref, motor), dt),
                           -motor.a_max, motor.a_max)
        vs1 == ClampIfElif(vs + Mul(vd1, dt), 0, motor.v_max)
    IN  [v_dot |-> vd1, v_state |-> vs1]

\* scenario constants
NoiseStdPos(scenario) == IF scenario = "sensor_noise" THEN Q \div 100 ELSE 0

NoiseStdVel(scenario) == IF scenario = "sensor_noise" THEN Q \div 20 ELSE 0

MassMult(scenario) == IF scenario = "payload_20" THEN (6 * Q) \div 5 ELSE Q

DistAmp(scenario) == IF scenario = "external_dist" THEN Q \div 10 ELSE 0

\* the motor update of simulate_case1_with_scenario at time tk
ActuatorScenario(vs, vd, v_ref, motor, dt, scenario, tk) ==
    LET base  == VDdot(vs, vd, v_ref, motor)
        vddot == IF DistAmp(scenario) > 0
                 THEN base + Mul(DistAmp(scenario), Sin(Div(Mul(TwoPi, tk), 5 * Q)))
                 ELSE base
        vd1   == NpClip(vd + Div(Mul(vddot, dt), MassMult(scenario)),
                        -motor.a_max, motor.a_max)
        vs1   == NpClip(vs + Mul(vd1, dt), 0, motor.v_max)
    IN  [v_dot |-> vd1, v_state |-> vs1]

\* the error frame transform
LongErr(dx, dy, th_ref) == Mul(dx, Cos(th_ref)) + Mul(dy, Sin(th_ref))

\* the lateral error with the opposite sign convention
LatErr_Negated(dx, dy, th_ref) == Mul(dx, Sin(th_ref)) - Mul(dy, Cos(th_ref))

LatErr(dx, dy, th_ref) == - Mul(dx, Sin(th_ref)) + Mul(dy, Cos(th_ref))

\* the wheel velocity mapper, per sample
WheelRight(vk, wk, robot) ==
    Div(vk + Mul(wk, RDiv(robot.wheel_spacing, 2)), robot.wheel_radius)

WheelLeft(vk, wk, robot) ==
    Div(vk - Mul(wk, RDiv(robot.wheel_spacing, 2)), robot.wheel_radius)

\* simulate_case2: R_curve = 4.0, v_g = 2.5, omega_ref_base = v_g / R_curve
RCurve == 4 * Q

VgCircle == (5 * Q) \div 2

OmegaRefCircle == Div(VgCircle, RCurve)

\* the 1e-3 tolerance of the projection test
ProjectionTol == Q \div 1000

\* the projection test that leaves a point at the origin alone
NeedsProjection_SkipsOrigin(case) ==
    /\ Hypot(case.x_ref0, case.y_ref0) > 0
    /\ Abs(Hypot(case.x_ref0, case.y_ref0) - RCurve) > ProjectionTol

\* the projection of the initial reference point onto the circle
NeedsProjection(case) == Abs(Hypot(case.x_ref0, case.y_ref0) - RCurve) > ProjectionTol

\* the projection with the point mirrored through the origin
ProjectionScale_Mirrored(case) ==
    IF Hypot(case.x_ref0, case.y_ref0) > 0
    THEN - Div(RCurve, Hypot(case.x_ref0, case.y_ref0))
    ELSE Q

ProjectionScale(case) ==
    IF Hypot(case.x_ref0, case.y_ref0) > 0
    THEN Div(RCurve, Hypot(case.x_ref0, case.y_ref0))
    ELSE Q

Phi0(case) ==
    IF NeedsProjection(case)
    THEN Atan2(Mul(case.y_ref0, ProjectionScale(case)),
               Mul(case.x_ref0, ProjectionScale(case)))
    ELSE Atan2(case.y_ref0, case.x_ref0)

\* ------------------------------------------------------------------------
\* afsmc_plots.py: metrics.  A numpy array is a sequence; index i of the
\* code is position i + 1 here.
\* ------------------------------------------------------------------------

\* np.all(np.abs(e[i:]) < tol)
TailBelow(e, i, tol) == \A j \in (i + 1)..Len(e) : Abs(e[j]) < tol

\* the loop "for i in range(len(e) - 1, 0, -1)" from index i downward
RECURSIVE SettlingScan(_, _, _, _)
SettlingScan(e, t, tol, i) ==
    IF i <= 0 THEN
        IF Len(t) = 0 THEN Raise("IndexError") ELSE Ret(t[Len(t)])
    ELSE IF TailBelow(e, i, tol) THEN Ret(t[i + 1])
    ELSE SettlingScan(e, t, tol, i - 1)

compute_settling_time(e, t, tol) == SettlingScan(e, t, tol, Len(e) - 1)

\* a float result that is not a number
NaN == [ok |-> TRUE, nan |-> TRUE]

\* the sum of e ** 2, in units of 1 / Q^2
RECURSIVE SumSq(_)
SumSq(e) == IF Len(e) = 0 THEN 0 ELSE e[1] * e[1] + SumSq(Tail(e))

\* np.mean(e ** 2), in units of 1 / Q^2; the mean of an empty array is nan
MeanSq(e) == RDiv(SumSq(e), Len(e))

\* the root mean square without the squaring
compute_rmse_NoSquare(e) ==
    IF Len(e) = 0 THEN NaN
    ELSE IF e[1] < 0 THEN NaN
    ELSE Ret(SqrtIter(e[1] * Q, 0, e[1] * Q))

\* afsmc_simulation.compute_rmse: float(np.sqrt(np.mean(e ** 2)))
compute_rmse(e) ==
    IF Len(e) = 0 THEN NaN
    ELSE Ret(SqrtIter(MeanSq(e), 0, MeanSq(e)))

\* utility_metric.compute_rmse: float(np.sqrt(np.mean(e ** 2)))
utility_metric_compute_rmse(e) ==
    IF Len(e) = 0 THEN NaN
    ELSE Ret(SqrtIter(MeanSq(e), 0, MeanSq(e)))

\* ------------------------------------------------------------------------
\* State
\* ------------------------------------------------------------------------

VARIABLES
    call,          \* the pending direct call of a controller or metric function
    ret,           \* <<>> until the call ends, then <<its outcome>>
    pc,            \* position of the simulation run: "idle", "start", "loop", "done"
    cfg,           \* the arguments of the run: fn, mode, ctrl, case, robot, motor, scenario
    n_steps, k,
    t, x, y, theta, x_ref, y_ref, theta_ref,
    e_x, e_y, e_theta, v, omega_cmd, s_hist, beta_hist,
    int_e_theta, prev_y_e, prev_e_theta,
    v_state, v_dot,
    rng,           \* the global state of np.random
    stdout,        \* the lines printed so far
    result,        \* <<>> while running, then <<the bundle or the raised exception>>
    history        \* the (arguments, outcome) of the runs this process completed before

callVars == <<call, ret>>

refArrays == <<x_ref, y_ref, theta_ref>>

poseArrays == <<x, y, theta>>

ctrlArrays == <<omega_cmd, s_hist, beta_hist>>

errArrays == <<e_x, e_y, e_theta>>

arrays == <<t, poseArrays, refArrays, errArrays, v, ctrlArrays>>

loopVars == <<int_e_theta, prev_y_e, prev_e_theta, v_state, v_dot>>

simVars == <<pc, cfg, n_steps, k, arrays, loopVars, rng, stdout, result, history>>

vars == <<callVars, simVars>>

\* no simulation is running
SimIdle ==
    /\ pc = "idle"
    /\ cfg = [fn |-> "none"]
    /\ n_steps = 0 /\ k = 0
    /\ t = <<>> /\ x = <<>> /\ y = <<>> /\ theta = <<>>
    /\ x_ref = <<>> /\ y_ref = <<>> /\ theta_ref = <<>>
    /\ e_x = <<>> /\ e_y = <<>> /\ e_theta = <<>>
    /\ v = <<>> /\ omega_cmd = <<>> /\ s_hist = <<>> /\ beta_hist = <<>>
    /\ int_e_theta = 0 /\ prev_y_e = 0 /\ prev_e_theta = 0
    /\ v_state = 0 /\ v_dot = 0
    /\ rng = 0
    /\ stdout = <<>>
    /\ result = <<>>
    /\ history = <<>>

\* no direct call is pending
NoCall == call = [fn |-> "none"] /\ ret = <<>>

\* ------------------------------------------------------------------------
\* Direct calls of the controller functions
\* ------------------------------------------------------------------------

\* mode strings a caller may pass
Modes ==
    {SMC, AFSMC, <<"s", "m", "c">>, <<"A", "f", "s", "m", "c">>,
     <<"P", "I", "D">>, <<>>}

\* six-value breakpoint tuples on the grid, ordered or not
GridBreakpoints == {[i \in 1..6 |-> G * f[i]] : f \in [1..6 -> 0..MaxXi]}

IsSorted(xi) == \A i \in 1..(Len(xi) - 1) : xi[i] <= xi[i + 1]

SortedBreakpoints == {xi \in GridBreakpoints : IsSorted(xi)}

\* a few tuples for the calls that vary everything else
FewBreakpoints ==
    {DefaultBreakpoints,
     <<5 * G, 4 * G, 3 * G, 2 * G, G, 0>>,
     <<0, G, 2 * G, 3 * G, 4 * G>>}

Gammas == {1, 2}

MuCalls ==
    {[fn |-> "hfn_mu", x |-> xv, xi |-> xi, gamma |-> 1] :
        xv \in 0..((MaxXi + 1) * G), xi \in GridBreakpoints}
    \cup
    {[fn |-> "hfn_mu", x |-> xv, xi |-> xi, gamma |-> g] :
        xv \in 0..(6 * G), xi \in FewBreakpoints, g \in Gammas}

\* (beta_min, beta_max) pairs with beta_min <= beta_max; the dataclass accepts
\* any floats, negative gains included
BetaPairs == {<<Q \div 2, 3 * Q>>, <<Q, Q>>, <<-2 * Q, -Q>>, <<-3 * Q, Q>>}

CtrlWith(xi, bp) ==
    [DefaultCtrl EXCEPT !.hfn_breakpoints = xi, !.beta_min = bp[1], !.beta_max = bp[2]]

OmegaCalls ==
    {[fn |-> "compute_omega", mode |-> m, y_e |-> ye, e_theta |-> et,
      int_e_theta |-> et, y_e_dot |-> yd, e_theta_dot |-> 0, omega_eq |-> oe,
      params |-> CtrlWith(xi, bp), gamma_hfn |-> 1] :
        m \in Modes, ye \in {-3 * G, 0, G, 2 * Q}, et \in {0, 4 * G},
        yd \in {0, 2 * G}, oe \in {0, Q}, xi \in FewBreakpoints, bp \in BetaPairs}
    \cup
    {[fn |-> "compute_omega", mode |-> m, y_e |-> ye, e_theta |-> 0,
      int_e_theta |-> 0, y_e_dot |-> yd, e_theta_dot |-> 0, omega_eq |-> 0,
      params |-> CtrlWith(xi, <<Q \div 2, 3 * Q>>), gamma_hfn |-> 1] :
        m \in {AFSMC}, ye \in {i * G : i \in 0..(MaxXi + 1)},
        yd \in {0, 2 * G}, xi \in GridBreakpoints}
    \cup
    {[fn |-> "compute_omega", mode |-> m, y_e |-> ye, e_theta |-> 0,
      int_e_theta |-> 0, y_e_dot |-> 0, e_theta_dot |-> 0, omega_eq |-> oe,
      params |-> [CtrlWith(DefaultBreakpoints, bp) EXCEPT !.delta = dl],
      gamma_hfn |-> 1] :
        m \in {SMC, AFSMC}, ye \in {-3 * G, -G, G, 3 * G}, oe \in {0, Q},
        dl \in {G \div 5, 2 * Q}, bp \in BetaPairs}

InitCtl == call \in MuCalls \cup OmegaCalls /\ ret = <<>> /\ SimIdle

CallHfnMu ==
    /\ ret = <<>>
    /\ call.fn = "hfn_mu"
    /\ ret' = <<hfn_mu(call.x, call.xi, call.gamma)>>
    /\ UNCHANGED <<call, simVars>>

CallComputeOmega ==
    /\ ret = <<>>
    /\ call.fn = "compute_omega"
    /\ ret' = <<compute_omega(call.mode, call.y_e, call.e_theta, call.int_e_theta,
                               call.y_e_dot, call.e_theta_dot, call.omega_eq,
                               call.params, call.gamma_hfn)>>
    /\ UNCHANGED <<call, simVars>>

NextCtl == CallHfnMu \/ CallComputeOmega

SpecCtl == InitCtl /\ [][NextCtl]_vars

\* ------------------------------------------------------------------------
\* Claims about the controller functions (checked under SpecCtl)
\* ------------------------------------------------------------------------

MuReturned == call.fn = "hfn_mu" /\ ret # <<>>

OmegaReturned == call.fn = "compute_omega" /\ ret # <<>>

UnknownModeError == Raise("ValueError: Unknown mode")

\* the x that compute_omega's AFSMC branch hands to hfn_mu
CallX ==
    ErrMagnitude(Hypot(call.y_e, call.e_theta), Hypot(call.y_e_dot, call.e_theta_dot))

CallXi == call.params.hfn_breakpoints

\* C3 as stated: every mode string other than exactly "SMC" or "AFSMC" ends
\* compute_omega in the invalid-mode error, and no triple is returned.
C3_ExactSpellingOnly ==
    (OmegaReturned /\ call.mode \notin {SMC, AFSMC}) => ret[1] = UnknownModeError

\* C3 amended: compute_omega ends in the invalid-mode error, returning no
\* triple, exactly for the mode strings whose upper-cased form is neither
\* "SMC" nor "AFSMC"; a string that upper-cases to one of them is accepted
\* and never fails with the invalid-mode error.
C3_UnknownModeRaises ==
    OmegaReturned =>
        /\ Upper(call.mode) \notin {SMC, AFSMC} => ret[1] = UnknownModeError
        /\ Upper(call.mode) \in {SMC, AFSMC} => ret[1] # UnknownModeError
        /\ Upper(call.mode) = SMC => ret[1].ok

C3_Witness ==
    /\ OmegaReturned
    /\ call.mode = <<"P", "I", "D">>
    /\ ret[1] = UnknownModeError

\* C8 as stated: on the falling side of a strictly increasing tuple, hfn_mu
\* returns 1 for every x with xi4 < x <= xi5 (the flat sub-segment).
C8_FlatBetweenXi4AndXi5 ==
    (/\ MuReturned
     /\ Len(call.xi) = 6
     /\ \A i \in 1..5 : call.xi[i] < call.xi[i + 1]
     /\ call.xi[4] < call.x
     /\ call.x <= call.xi[5]) => ret[1] = Ret(Q)

\* C9 as stated: in AFSMC mode, for every non-decreasing tuple and every x with
\* xi2 <= x <= xi4, beta_eff equals beta_max (hfn_mu returns 1).
C9_PlateauOnClosedInterval ==
    (/\ OmegaReturned
     /\ Upper(call.mode) = AFSMC
     /\ Len(CallXi) = 6
     /\ IsSorted(CallXi)
     /\ CallXi[2] <= CallX
     /\ CallX <= CallXi[4]) => (ret[1].ok /\ ret[1].val.beta_eff = call.params.beta_max)

\* C9 amended: for every non-decreasing tuple and every x with xi2 <= x <= xi4
\* that also lies strictly between xi1 and xi6, hfn_mu returns 1 and, in AFSMC
\* mode, beta_eff equals beta_max; when equal neighbours put such an x at xi1
\* or at xi6, the cut-off rule wins and beta_eff equals beta_min.
C9_PlateauInsideSupport ==
    /\ (/\ OmegaReturned
         /\ Upper(call.mode) = AFSMC
         /\ Len(CallXi) = 6
         /\ IsSorted(CallXi)
         /\ CallXi[2] <= CallX
         /\ CallX <= CallXi[4])
            => /\ ret[1].ok
               /\ ret[1].val.beta_eff =
                     IF CallXi[1] < CallX /\ CallX < CallXi[6]
                     THEN call.params.beta_max
                     ELSE call.params.beta_min
    /\ (/\ MuReturned
         /\ Len(call.xi) = 6
         /\ IsSorted(call.xi)
         /\ call.xi[2] <= call.x
         /\ call.x <= call.xi[4]
         /\ call.xi[1] < call.x
         /\ call.x < call.xi[6]) => ret[1] = Ret(Q)

C9_Witness ==
    /\ OmegaReturned
    /\ Upper(call.mode) = AFSMC
    /\ Len(CallXi) = 6
    /\ IsSorted(CallXi)
    /\ CallXi[1] < CallXi[2]
    /\ CallX = CallXi[2]
    /\ CallX < CallXi[6]
    /\ call.params.beta_min < call.params.beta_max
    /\ ret[1].ok
    /\ ret[1].val.beta_eff = call.params.beta_max

\* C10: whenever x <= xi1 or x >= xi6, hfn_mu returns 0 and, in AFSMC mode,
\* beta_eff equals beta_min.
C10_ZeroOutsideSupport ==
    /\ (/\ OmegaReturned
         /\ Upper(call.mode) = AFSMC
         /\ Len(CallXi) = 6
         /\ (CallX <= CallXi[1] \/ CallX >= CallXi[6]))
            => (ret[1].ok /\ ret[1].val.beta_eff = call.params.beta_min)
    /\ (/\ MuReturned
         /\ Len(call.xi) = 6
         /\ (call.x <= call.xi[1] \/ call.x >= call.xi[6])) => ret[1] = Ret(0)

C10_Witness ==
    /\ OmegaReturned
    /\ Upper(call.mode) = AFSMC
    /\ Len(CallXi) = 6
    /\ CallXi[1] < CallXi[6]
    /\ CallX >= CallXi[6]
    /\ call.params.beta_min < call.params.beta_max
    /\ ret[1].ok
    /\ ret[1].val.beta_eff = call.params.beta_min

\* C11: compute_omega called with mode SMC (in any capitalisation) returns a
\* triple whose beta_eff equals params.beta_max, whatever the errors, their
\* derivatives, omega_eq and the HFN breakpoints (malformed tuples included).
C11_SmcGainIsBetaMax ==
    (OmegaReturned /\ Upper(call.mode) = SMC) =>
        (ret[1].ok /\ ret[1].val.beta_eff = call.params.beta_max)

C11_Witness ==
    /\ OmegaReturned
    /\ call.mode = SMC
    /\ Len(CallXi) = 6
    /\ IsSorted(CallXi)
    /\ CallX >= CallXi[6]
    /\ call.params.beta_min < call.params.beta_max
    /\ ret[1].ok
    /\ ret[1].val.beta_eff = call.params.beta_max

\* the parameters satisfy the data-model invariants
ParamsInvariant(params) ==
    /\ params.delta > 0
    /\ params.beta_min <= params.beta_max
    /\ Len(params.hfn_breakpoints) = 6
    /\ IsSorted(params.hfn_breakpoints)

\* the switching term omega_eq - omega_cmd of the returned triple
SwitchingTerm == call.omega_eq - ret[1].val.omega_cmd

\* C12 as stated: for parameters satisfying delta > 0, beta_min <= beta_max and
\* non-decreasing breakpoints, in both modes, |omega_cmd - omega_eq| <= beta_max.
C12_SwitchingBoundedByBetaMax ==
    (/\ OmegaReturned
     /\ Upper(call.mode) \in {SMC, AFSMC}
     /\ ParamsInvariant(call.params))
        => (ret[1].ok /\ Abs(SwitchingTerm) <= call.params.beta_max)

\* C12 amended: under the same invariants beta_eff lies in [beta_min, beta_max]
\* and |omega_cmd - omega_eq| <= |beta_eff| <= max(|beta_min|, |beta_max|);
\* the bound is beta_max when, in addition, beta_min >= -beta_max (in
\* particular for non-negative gains).
C12_SwitchingBoundedByGainMagnitude ==
    (/\ OmegaReturned
     /\ Upper(call.mode) \in {SMC, AFSMC}
     /\ ParamsInvariant(call.params))
        => /\ ret[1].ok
           /\ call.params.beta_min <= ret[1].val.beta_eff
           /\ ret[1].val.beta_eff <= call.params.beta_max
           /\ Abs(SwitchingTerm) <= Abs(ret[1].val.beta_eff)
           /\ Abs(SwitchingTerm) <= Max(Abs(call.params.beta_min), Abs(call.params.beta_max))
           /\ call.params.beta_min >= -call.params.beta_max
                 => Abs(SwitchingTerm) <= call.params.beta_max

C12_Witness ==
    /\ OmegaReturned
    /\ call.mode = AFSMC
    /\ ParamsInvariant(call.params)
    /\ 0 <= call.params.beta_min
    /\ call.params.beta_min < call.params.beta_max
    /\ ret[1].ok
    /\ ret[1].val.s >= 3 * call.params.delta
    /\ ret[1].val.beta_eff > call.params.beta_min
    /\ SwitchingTerm = ret[1].val.beta_eff

\* C29: for every x and every six-value breakpoint tuple, ordered or not, with
\* gamma = 1, hfn_mu never divides by zero and returns a value in [0, 1];
\* hence, when beta_min <= beta_max, the AFSMC gain beta_eff returned by
\* compute_omega lies in [beta_min, beta_max].
C29_MembershipInUnitInterval ==
    /\ (MuReturned /\ Len(call.xi) = 6 /\ call.gamma = 1) =>
          /\ ret[1].ok
          /\ 0 <= ret[1].val
          /\ ret[1].val <= Q
    /\ (/\ OmegaReturned
         /\ Upper(call.mode) = AFSMC
         /\ Len(CallXi) = 6
         /\ call.gamma_hfn = 1
         /\ call.params.beta_min <= call.params.beta_max) =>
          /\ ret[1].ok
          /\ call.params.beta_min <= ret[1].val.beta_eff
          /\ ret[1].val.beta_eff <= call.params.beta_max

C29_Witness ==
    /\ MuReturned
    /\ Len(call.xi) = 6
    /\ call.gamma = 1
    /\ ~IsSorted(call.xi)
    /\ call.xi[1] = call.xi[2]
    /\ call.xi[5] > call.xi[6]
    /\ call.xi[4] < call.x
    /\ ret[1].ok
    /\ 0 < ret[1].val
    /\ ret[1].val < Q

\* ------------------------------------------------------------------------
\* Direct calls of the metric functions
\* ------------------------------------------------------------------------

\* the default tolerance 0.05
DefaultTol == G

ErrorSamples == {-2 * G, 0, G - 1, G}

ErrorSeries == UNION {[1..n -> ErrorSamples] : n \in 0..MaxLen}

\* a time grid of n samples, one unit of time apart
TimeGrid(n) == [i \in 1..n |-> (i - 1) * Q]

SettlingCalls ==
    {[fn |-> "compute_settling_time", e |-> e, t |-> TimeGrid(Len(e)), tol |-> tol] :
        e \in ErrorSeries, tol \in {DefaultTol, 2 * G + 1}}

\* the two copies of compute_rmse, called with the same series
RmseCalls ==
    {[fn |-> "compute_rmse", module |-> md, e |-> e] :
        md \in {"afsmc_simulation", "utility_metric"}, e \in ErrorSeries}

InitMetric == call \in SettlingCalls \cup RmseCalls /\ ret = <<>> /\ SimIdle

CallComputeSettlingTime ==
    /\ ret = <<>>
    /\ call.fn = "compute_settling_time"
    /\ ret' = <<compute_settling_time(call.e, call.t, call.tol)>>
    /\ UNCHANGED <<call, simVars>>

CallComputeRmse ==
    /\ ret = <<>>
    /\ call.fn = "compute_rmse"
    /\ ret' = IF call.module = "afsmc_simulation"
              THEN <<compute_rmse(call.e)>>
              ELSE <<utility_metric_compute_rmse(call.e)>>
    /\ UNCHANGED <<call, simVars>>

NextMetric == CallComputeSettlingTime \/ CallComputeRmse

SpecMetric == InitMetric /\ [][NextMetric]_vars

\* ------------------------------------------------------------------------
\* Claims about the metrics (checked under SpecMetric)
\* ------------------------------------------------------------------------

\* index i (0-based) from which on the series stays within tolerance
SettledFrom(e, i, tol) == \A j \in (i + 1)..Len(e) : Abs(e[j]) < tol

\* C7 as stated: compute_settling_time returns t[i] for the smallest index i
\* such that |e[j]| < tol for every j >= i, and the final time t[-1] only when
\* no such index exists.
C7_EarliestSettledIndex ==
    (call.fn = "compute_settling_time" /\ ret # <<>> /\ Len(call.e) > 0) =>
        LET n       == Len(call.e)
            settled == {i \in 0..(n - 1) : SettledFrom(call.e, i, call.tol)}
        IN  IF settled = {} THEN ret[1] = Ret(call.t[n])
            ELSE \E i \in settled :
                    /\ \A m \in settled : i <= m
                    /\ ret[1] = Ret(call.t[i + 1])

RmseReturned == call.fn = "compute_rmse" /\ ret # <<>>

\* the result the other copy of compute_rmse gives on the same series
OtherCopy ==
    IF call.module = "afsmc_simulation"
    THEN utility_metric_compute_rmse(call.e)
    ELSE compute_rmse(call.e)

AllZero(e) == \A i \in 1..Len(e) : e[i] = 0

Timings ==
    {<<2 * Q, Q \div 2>>, <<Q, (2 * Q) \div 5>>, <<Q \div 4, Q \div 2>>,
     <<0, Q \div 2>>, <<Q, 0>>, <<-Q, Q \div 2>>, <<-(Q \div 2), Q \div 2>>,
     <<-Q, -(Q \div 2)>>}

\* initial reference and actual poses
Poses ==
    {[x_ref0 |-> Q, y_ref0 |-> 0, theta_ref0 |-> PI \div 3,
      x0 |-> Q \div 2, y0 |-> 0, theta0 |-> PI \div 3],
     [x_ref0 |-> 4 * Q, y_ref0 |-> 0, theta_ref0 |-> HalfPi,
      x0 |-> 4 * Q, y0 |-> 2 * Q, theta0 |-> (5 * PI) \div 6],
     [x_ref0 |-> Q, y_ref0 |-> 0, theta_ref0 |-> PI,
      x0 |-> Q, y0 |-> 0, theta0 |-> PI],
     [x_ref0 |-> 0, y_ref0 |-> 0, theta_ref0 |-> 0,
      x0 |-> 0, y0 |-> Q, theta0 |-> -PI],
     [x_ref0 |-> 0, y_ref0 |-> 4 * Q, theta_ref0 |-> PI,
      x0 |-> 0, y0 |-> 4 * Q, theta0 |-> PI],
     [x_ref0 |-> -3 * Q, y_ref0 |-> 3 * Q, theta_ref0 |-> 0,
      x0 |-> -3 * Q, y0 |-> 3 * Q, theta0 |-> 0]}

Speeds == {(5 * Q) \div 2, 10 * Q, -Q}

Motors == {DefaultMotor, [DefaultMotor EXCEPT !.v_max = Q, !.a_max = Q \div 2]}

Cases ==
    {[x_ref0 |-> p.x_ref0, y_ref0 |-> p.y_ref0, theta_ref0 |-> p.theta_ref0,
      x0 |-> p.x0, y0 |-> p.y0, theta0 |-> p.theta0,
      v_cmd |-> vc, t_end |-> tm[1], dt |-> tm[2]] :
        p \in Poses, vc \in Speeds, tm \in Timings}

Scenarios == {"nominal", "sensor_noise", "payload_20", "external_dist"}

RunModes == {SMC, AFSMC, <<"P", "I", "D">>}

Entries ==
    {[fn |-> "simulate_case1", scenario |-> "nominal"],
     [fn |-> "simulate_case2", scenario |-> "nominal"]}
    \cup {[fn |-> "simulate_case1_with_scenario", scenario |-> sc] : sc \in Scenarios}

Configs ==
    {[fn |-> en.fn, scenario |-> en.scenario, mode |-> m,
      ctrl |-> [DefaultCtrl EXCEPT !.hfn_breakpoints = xi],
      case |-> c, robot |-> DefaultRobot, motor |-> mo] :
        en \in Entries, m \in RunModes, xi \in FewBreakpoints,
        c \in Cases, mo \in Motors}

Init ==
    /\ NoCall
    /\ pc = "start"
    /\ cfg \in Configs
    /\ n_steps = 0 /\ k = 0
    /\ t = <<>> /\ x = <<>> /\ y = <<>> /\ theta = <<>>
    /\ x_ref = <<>> /\ y_ref = <<>> /\ theta_ref = <<>>
    /\ e_x = <<>> /\ e_y = <<>> /\ e_theta = <<>>
    /\ v = <<>> /\ omega_cmd = <<>> /\ s_hist = <<>> /\ beta_hist = <<>>
    /\ int_e_theta = 0 /\ prev_y_e = 0 /\ prev_e_theta = 0
    /\ v_state = 0 /\ v_dot = 0
    /\ rng = RngSeed(42)
    /\ stdout = <<>>
    /\ result = <<>>
    /\ history = <<>>

\* the exception raised before the loop, or "none"
EntryError(case) ==
    IF case.dt = 0 THEN "ZeroDivisionError"
    ELSE IF NSteps(case) < 0 THEN "ValueError: negative number of samples"
    ELSE IF NSteps(case) = 0 THEN "IndexError"
    ELSE "none"

\* the run ends in exception e; the locals are dropped
Abort(e) ==
    /\ pc' = "done"
    /\ result' = <<Raise(e)>>

\* the allocations shared by the three functions, and the loop state
Allocate(n) ==
    /\ n_steps' = n
    /\ k' = 1
    /\ t' = Linspace(cfg.case.t_end, n)
    /\ e_x' = Zeros(n) /\ e_y' = Zeros(n) /\ e_theta' = Zeros(n)
    /\ v' = Zeros(n)
    /\ omega_cmd' = Zeros(n) /\ s_hist' = Zeros(n) /\ beta_hist' = Zeros(n)
    /\ int_e_theta' = 0 /\ prev_y_e' = 0 /\ prev_e_theta' = 0
    /\ v_state' = 0 /\ v_dot' = 0
    /\ pc' = "loop"
    /\ result' = <<>>

ProjectionWarning == "Warning: Ref initial dist != R. Projecting direction to circle."

\* simulate_case1 up to the main loop
Begin_case1 ==
    /\ pc = "start"
    /\ cfg.fn = "simulate_case1"
    /\ IF EntryError(cfg.case) # "none"
       THEN /\ Abort(EntryError(cfg.case))
            /\ UNCHANGED <<n_steps, k, arrays, loopVars>>
       ELSE LET n  == NSteps(cfg.case)
                c  == cfg.case
                tt == Linspace(c.t_end, n)
            IN  /\ Allocate(n)
                /\ x' = [Zeros(n) EXCEPT ![0] = c.x0]
                /\ y' = [Zeros(n) EXCEPT ![0] = c.y0]
                /\ theta' = [Zeros(n) EXCEPT ![0] = c.theta0]
                /\ x_ref' = [i \in 0..(n - 1) |->
                                c.x_ref0 + Mul(Mul(c.v_cmd, tt[i]), Cos(c.theta_ref0))]
                /\ y_ref' = [i \in 0..(n - 1) |->
                                c.y_ref0 + Mul(Mul(c.v_cmd, tt[i]), Sin(c.theta_ref0))]
                /\ theta_ref' = [i \in 0..(n - 1) |-> c.theta_ref0]
    /\ UNCHANGED <<callVars, history, cfg, rng, stdout>>

\* simulate_case2 up to the main loop
Begin_case2 ==
    /\ pc = "start"
    /\ cfg.fn = "simulate_case2"
    /\ stdout' = IF cfg.case.dt # 0 /\ NSteps(cfg.case) >= 0 /\ NeedsProjection(cfg.case)
                 THEN Append(stdout, ProjectionWarning)
                 ELSE stdout
    /\ IF EntryError(cfg.case) # "none"
       THEN /\ Abort(EntryError(cfg.case))
            /\ UNCHANGED <<n_steps, k, arrays, loopVars>>
       ELSE LET n  == NSteps(cfg.case)
                c  == cfg.case
                tt == Linspace(c.t_end, n)
                alpha == [i \in 0..(n - 1) |-> Mul(OmegaRefCircle, tt[i]) + Phi0(c)]
            IN  /\ Allocate(n)
                /\ x' = [Zeros(n) EXCEPT ![0] = c.x0]
                /\ y' = [Zeros(n) EXCEPT ![0] = c.y0]
                /\ theta' = [Zeros(n) EXCEPT ![0] = wrap_angle(c.theta0)]
                /\ x_ref' = [i \in 0..(n - 1) |-> Mul(RCurve, Cos(alpha[i]))]
                /\ y_ref' = [i \in 0..(n - 1) |-> Mul(RCurve, Sin(alpha[i]))]
                /\ theta_ref' = [i \in 0..(n - 1) |-> (alpha[i] + HalfPi) % TwoPi]
    /\ UNCHANGED <<callVars, history, cfg, rng>>

\* simulate_case1_with_scenario up to the main loop
Begin_scenario ==
    /\ pc = "start"
    /\ cfg.fn = "simulate_case1_with_scenario"
    /\ IF EntryError(cfg.case) # "none"
       THEN /\ Abort(EntryError(cfg.case))
            \* "x[0] = case.x0 + np.random.normal(...)" draws before it fails
            /\ rng' = IF EntryError(cfg.case) = "IndexError" /\ NoiseStdPos(cfg.scenario) > 0
                      THEN RngNext(rng)
                      ELSE rng
            /\ UNCHANGED <<n_steps, k, arrays, loopVars>>
       ELSE LET n   == NSteps(cfg.case)
                c   == cfg.case
                std == NoiseStdPos(cfg.scenario)
                r1  == RngNext(rng)
                r2  == RngNext(r1)
            IN  /\ Allocate(n)
                /\ x_ref' = Zeros(n) /\ y_ref' = Zeros(n) /\ theta_ref' = Zeros(n)
                /\ IF std > 0
                   THEN /\ x' = [Zeros(n) EXCEPT ![0] = c.x0 + RngNormal(rng, std)]
                        /\ y' = [Zeros(n) EXCEPT ![0] = c.y0 + RngNormal(r1, std)]
                        /\ theta' = [Zeros(n) EXCEPT ![0] =
                                        wrap_angle(c.theta0 + RngNormal(r2, RDiv(std, 10)))]
                        /\ rng' = RngNext(r2)
                   ELSE /\ x' = [Zeros(n) EXCEPT ![0] = c.x0]
                        /\ y' = [Zeros(n) EXCEPT ![0] = c.y0]
                        /\ theta' = [Zeros(n) EXCEPT ![0] = wrap_angle(c.theta0)]
                        /\ rng' = rng
    /\ UNCHANGED <<callVars, history, cfg, stdout>>

\* the feedforward turn rate handed to the control law
OmegaEq(fn, case, ey) ==
    IF fn = "simulate_case1" THEN 0
    ELSE IF fn = "simulate_case2" THEN OmegaRefCircle
    ELSE IF case.v_cmd = 0 THEN 0
    ELSE Div(Mul(case.v_cmd, Tan(ey)), case.v_cmd)

\* the backward difference (e - prev) / dt; the two plain functions guard dt > 0
BackDiff(fn, e, prev, dt) ==
    IF fn = "simulate_case1_with_scenario" THEN Div(e - prev, dt)
    ELSE IF dt > 0 THEN Div(e - prev, dt)
    ELSE 0

\* the loop body with the kinematic update driven by the commanded speed
LoopBody_CommandedSpeed(act, nz) ==
    LET dt   == cfg.case.dt
        dx   == x[k - 1] + nz.dx - x_ref[k - 1]
        dy   == y[k - 1] + nz.dy - y_ref[k - 1]
        eth  == wrap_angle(theta[k - 1] - theta_ref[k - 1] + nz.eth)
        ex   == LongErr(dx, dy, theta_ref[k - 1])
        ey   == LatErr(dx, dy, theta_ref[k - 1])
        yed  == BackDiff(cfg.fn, ey, prev_y_e, dt) + nz.yed
        etd  == BackDiff(cfg.fn, eth, prev_e_theta, dt) + nz.etd
        int1 == int_e_theta + Mul(eth, dt)
        out  == compute_omega(cfg.mode, ey, eth, int1, yed, etd,
                              OmegaEq(cfg.fn, cfg.case, ey), cfg.ctrl, 1)
    IN  /\ v_dot' = act.v_dot
        /\ v_state' = act.v_state
        /\ v' = [v EXCEPT ![k] = act.v_state]
        /\ e_theta' = [e_theta EXCEPT ![k - 1] = eth]
        /\ e_x' = [e_x EXCEPT ![k - 1] = ex]
        /\ e_y' = [e_y EXCEPT ![k - 1] = ey]
        /\ prev_y_e' = ey
        /\ prev_e_theta' = eth
        /\ int_e_theta' = int1
        /\ IF out.ok
           THEN /\ omega_cmd' = [omega_cmd EXCEPT ![k - 1] = out.val.omega_cmd]
                /\ s_hist' = [s_hist EXCEPT ![k - 1] = out.val.s]
                /\ beta_hist' = [beta_hist EXCEPT ![k - 1] = out.val.beta_eff]
                /\ x' = [x EXCEPT ![k] = x[k - 1] + Mul(Mul(cfg.case.v_cmd, Cos(theta[k - 1])), dt)]
                /\ y' = [y EXCEPT ![k] = y[k - 1] + Mul(Mul(cfg.case.v_cmd, Sin(theta[k - 1])), dt)]
                /\ theta' = [theta EXCEPT ![k] =
                                wrap_angle(theta[k - 1] + Mul(out.val.omega_cmd, dt))]
                /\ k' = k + 1
                /\ UNCHANGED <<pc, result>>
           ELSE /\ Abort(out.err)
                /\ UNCHANGED <<k, poseArrays, ctrlArrays>>

\* the loop body with the previous-sample accumulators left at 0
LoopBody_StalePrevious(act, nz) ==
    LET dt   == cfg.case.dt
        dx   == x[k - 1] + nz.dx - x_ref[k - 1]
        dy   == y[k - 1] + nz.dy - y_ref[k - 1]
        eth  == wrap_angle(theta[k - 1] - theta_ref[k - 1] + nz.eth)
        ex   == LongErr(dx, dy, theta_ref[k - 1])
        ey   == LatErr(dx, dy, theta_ref[k - 1])
        yed  == BackDiff(cfg.fn, ey, prev_y_e, dt) + nz.yed
        etd  == BackDiff(cfg.fn, eth, prev_e_theta, dt) + nz.etd
        int1 == int_e_theta + Mul(eth, dt)
        out  == compute_omega(cfg.mode, ey, eth, int1, yed, etd,
                              OmegaEq(cfg.fn, cfg.case, ey), cfg.ctrl, 1)
    IN  /\ v_dot' = act.v_dot
        /\ v_state' = act.v_state
        /\ v' = [v EXCEPT ![k] = act.v_state]
        /\ e_theta' = [e_theta EXCEPT ![k - 1] = eth]
        /\ e_x' = [e_x EXCEPT ![k - 1] = ex]
        /\ e_y' = [e_y EXCEPT ![k - 1] = ey]
        /\ prev_y_e' = prev_y_e
        /\ prev_e_theta' = prev_e_theta
        /\ int_e_theta' = int1
        /\ IF out.ok
           THEN /\ omega_cmd' = [omega_cmd EXCEPT ![k - 1] = out.val.omega_cmd]
                /\ s_hist' = [s_hist EXCEPT ![k - 1] = out.val.s]
                /\ beta_hist' = [beta_hist EXCEPT ![k - 1] = out.val.beta_eff]
                /\ x' = [x EXCEPT ![k] = x[k - 1] + Mul(Mul(act.v_state, Cos(theta[k - 1])), dt)]
                /\ y' = [y EXCEPT ![k] = y[k - 1] + Mul(Mul(act.v_state, Sin(theta[k - 1])), dt)]
                /\ theta' = [theta EXCEPT ![k] =
                                wrap_angle(theta[k - 1] + Mul(out.val.omega_cmd, dt))]
                /\ k' = k + 1
                /\ UNCHANGED <<pc, result>>
           ELSE /\ Abort(out.err)
                /\ UNCHANGED <<k, poseArrays, ctrlArrays>>

\* One iteration of the main loop after the motor update act, with the sensor
\* noise nz added to the measurements: error transform, derivatives, integral,
\* controller call, kinematic update.
LoopBody(act, nz) ==
    LET dt   == cfg.case.dt
        dx   == x[k - 1] + nz.dx - x_ref[k - 1]
        dy   == y[k - 1] + nz.dy - y_ref[k - 1]
        eth  == wrap_angle(theta[k - 1] - theta_ref[k - 1] + nz.eth)
        ex   == LongErr(dx, dy, theta_ref[k - 1])
        ey   == LatErr(dx, dy, theta_ref[k - 1])
        yed  == BackDiff(cfg.fn, ey, prev_y_e, dt) + nz.yed
        etd  == BackDiff(cfg.fn, eth, prev_e_theta, dt) + nz.etd
        int1 == int_e_theta + Mul(eth, dt)
        out  == compute_omega(cfg.mode, ey, eth, int1, yed, etd,
                              OmegaEq(cfg.fn, cfg.case, ey), cfg.ctrl, 1)
    IN  /\ v_dot' = act.v_dot
        /\ v_state' = act.v_state
        /\ v' = [v EXCEPT ![k] = act.v_state]
        /\ e_theta' = [e_theta EXCEPT ![k - 1] = eth]
        /\ e_x' = [e_x EXCEPT ![k - 1] = ex]
        /\ e_y' = [e_y EXCEPT ![k - 1] = ey]
        /\ prev_y_e' = ey
        /\ prev_e_theta' = eth
        /\ int_e_theta' = int1
        /\ IF out.ok
           THEN /\ omega_cmd' = [omega_cmd EXCEPT ![k - 1] = out.val.omega_cmd]
                /\ s_hist' = [s_hist EXCEPT ![k - 1] = out.val.s]
                /\ beta_hist' = [beta_hist EXCEPT ![k - 1] = out.val.beta_eff]
                /\ x' = [x EXCEPT ![k] = x[k - 1] + Mul(Mul(act.v_state, Cos(theta[k - 1])), dt)]
                /\ y' = [y EXCEPT ![k] = y[k - 1] + Mul(Mul(act.v_state, Sin(theta[k - 1])), dt)]
                /\ theta' = [theta EXCEPT ![k] =
                                wrap_angle(theta[k - 1] + Mul(out.val.omega_cmd, dt))]
                /\ k' = k + 1
                /\ UNCHANGED <<pc, result>>
           ELSE /\ Abort(out.err)
                /\ UNCHANGED <<k, poseArrays, ctrlArrays>>

NoNoise == [dx |-> 0, dy |-> 0, eth |-> 0, yed |-> 0, etd |-> 0]

\* one iteration of simulate_case1's main loop
Step_case1 ==
    /\ pc = "loop"
    /\ cfg.fn = "simulate_case1"
    /\ k < n_steps
    /\ LoopBody(Actuator(v_state, v_dot, cfg.case.v_cmd, cfg.motor, cfg.case.dt), NoNoise)
    /\ UNCHANGED <<callVars, history, cfg, n_steps, t, refArrays, rng, stdout>>

\* one iteration of simulate_case2's main loop
Step_case2 ==
    /\ pc = "loop"
    /\ cfg.fn = "simulate_case2"
    /\ k < n_steps
    /\ LoopBody(Actuator(v_state, v_dot, VgCircle, cfg.motor, cfg.case.dt), NoNoise)
    /\ UNCHANGED <<callVars, history, cfg, n_steps, t, refArrays, rng, stdout>>

\* one iteration of simulate_case1_with_scenario's main loop
Step_scenario ==
    /\ pc = "loop"
    /\ cfg.fn = "simulate_case1_with_scenario"
    /\ k < n_steps
    /\ LET c  == cfg.case
           sp == NoiseStdPos(cfg.scenario)
           sv == NoiseStdVel(cfg.scenario)
           r1 == RngNext(rng)
           r2 == RngNext(r1)
           r3 == RngNext(r2)
           r4 == RngNext(r3)
           nz == [dx  |-> RngNormal(rng, sp),
                  dy  |-> RngNormal(r1, sp),
                  eth |-> RngNormal(r2, RDiv(sp, 10)),
                  yed |-> RngNormal(r3, sv),
                  etd |-> RngNormal(r4, RDiv(sv, 10))]
       IN  /\ x_ref' = [x_ref EXCEPT ![k] = c.x_ref0 + Mul(Mul(c.v_cmd, t[k]), Cos(c.theta_ref0))]
           /\ y_ref' = [y_ref EXCEPT ![k] = c.y_ref0 + Mul(Mul(c.v_cmd, t[k]), Sin(c.theta_ref0))]
           /\ theta_ref' = [theta_ref EXCEPT ![k] = c.theta_ref0]
           /\ LoopBody(ActuatorScenario(v_state, v_dot, c.v_cmd, cfg.motor, c.dt,
                                        cfg.scenario, t[k]), nz)
           /\ rng' = RngNext(r4)
    /\ UNCHANGED <<callVars, history, cfg, n_steps, t, stdout>>

\* the returned dict
Bundle(eth, ex, ey) ==
    [t |-> t, x |-> x, y |-> y, theta |-> theta,
     x_ref |-> x_ref, y_ref |-> y_ref, theta_ref |-> theta_ref,
     v |-> v, omega |-> omega_cmd,
     e_x |-> ex, e_y |-> ey, e_theta |-> eth,
     w_left |-> [i \in 0..(n_steps - 1) |-> WheelLeft(v[i], omega_cmd[i], cfg.robot)],
     w_right |-> [i \in 0..(n_steps - 1) |-> WheelRight(v[i], omega_cmd[i], cfg.robot)],
     s |-> s_hist, beta |-> beta_hist,
     scenario |-> IF cfg.fn = "simulate_case1_with_scenario" THEN <<cfg.scenario>> ELSE <<>>]

\* after the loop: the final errors, the wheel velocities, the return
Return ==
    /\ pc = "loop"
    /\ k >= n_steps
    /\ LET last == n_steps - 1
           dx   == x[last] - x_ref[last]
           dy   == y[last] - y_ref[last]
           eth  == [e_theta EXCEPT ![last] = wrap_angle(theta[last] - theta_ref[last])]
           ex   == [e_x EXCEPT ![last] = LongErr(dx, dy, theta_ref[last])]
           ey   == [e_y EXCEPT ![last] = LatErr(dx, dy, theta_ref[last])]
       IN  /\ e_theta' = eth
           /\ e_x' = ex
           /\ e_y' = ey
           /\ result' = <<Ret(Bundle(eth, ex, ey))>>
    /\ pc' = "done"
    /\ UNCHANGED <<callVars, history, cfg, n_steps, k, t, poseArrays, refArrays, v, ctrlArrays,
                   loopVars, rng, stdout>>

Next ==
    \/ Begin_case1
    \/ Begin_case2
    \/ Begin_scenario
    \/ Step_case1
    \/ Step_case2
    \/ Step_scenario
    \/ Return

Spec == Init /\ [][Next]_vars

\* ------------------------------------------------------------------------
\* Several runs in one process: the caller seeds np.random once and then
\* calls the simulation functions one after another
\* ------------------------------------------------------------------------

BatchModes == {SMC, AFSMC}

BatchCases ==
    {[x_ref0 |-> Q, y_ref0 |-> 0, theta_ref0 |-> PI \div 3,
      x0 |-> Q \div 2, y0 |-> 0, theta0 |-> PI \div 3,
      v_cmd |-> (5 * Q) \div 2, t_end |-> 2 * Q, dt |-> Q \div 2]}

BatchConfigs ==
    {[fn |-> en.fn, scenario |-> en.scenario, mode |-> m, ctrl |-> DefaultCtrl,
      case |-> c, robot |-> DefaultRobot, motor |-> DefaultMotor] :
        en \in Entries, m \in BatchModes, c \in BatchCases}

InitBatch ==
    /\ NoCall
    /\ pc = "start"
    /\ cfg \in BatchConfigs
    /\ n_steps = 0 /\ k = 0
    /\ t = <<>> /\ x = <<>> /\ y = <<>> /\ theta = <<>>
    /\ x_ref = <<>> /\ y_ref = <<>> /\ theta_ref = <<>>
    /\ e_x = <<>> /\ e_y = <<>> /\ e_theta = <<>>
    /\ v = <<>> /\ omega_cmd = <<>> /\ s_hist = <<>> /\ beta_hist = <<>>
    /\ int_e_theta = 0 /\ prev_y_e = 0 /\ prev_e_theta = 0
    /\ v_state = 0 /\ v_dot = 0
    /\ rng = RngSeed(42)
    /\ stdout = <<>>
    /\ result = <<>>
    /\ history = <<>>

\* the caller keeps the outcome and calls a simulation function again; the
\* locals of the finished call are gone, the module-level state of np.random
\* and the printed output stay
NextRun ==
    /\ pc = "done"
    /\ Len(history) < MaxRuns - 1
    /\ history' = Append(history, [cfg |-> cfg, result |-> result[1]])
    /\ cfg' \in BatchConfigs
    /\ pc' = "start"
    /\ n_steps' = 0 /\ k' = 0
    /\ t' = <<>> /\ x' = <<>> /\ y' = <<>> /\ theta' = <<>>
    /\ x_ref' = <<>> /\ y_ref' = <<>> /\ theta_ref' = <<>>
    /\ e_x' = <<>> /\ e_y' = <<>> /\ e_theta' = <<>>
    /\ v' = <<>> /\ omega_cmd' = <<>> /\ s_hist' = <<>> /\ beta_hist' = <<>>
    /\ int_e_theta' = 0 /\ prev_y_e' = 0 /\ prev_e_theta' = 0
    /\ v_state' = 0 /\ v_dot' = 0
    /\ result' = <<>>
    /\ UNCHANGED <<callVars, rng, stdout>>

NextBatch == Next \/ NextRun

SpecBatch == InitBatch /\ [][NextBatch]_vars

\* ------------------------------------------------------------------------
\* utility_metric.py: run_batch_test and simulate_case1_fallback.  The
\* pending fallback call is in call, its outcome in ret; the simulate_case1
\* run it makes is the run of cfg.
\* ------------------------------------------------------------------------

\* scenarios = ["nominal", "sensor_noise", "payload_20", "external_dist"]
RunnerScenarios == <<"nominal", "sensor_noise", "payload_20", "external_dist">>

\* the p-th fallback call of the batch: per scenario, AFSMC first, then SMC
FallbackCall(p) ==
    [fn |-> "simulate_case1_fallback",
     mode |-> IF p % 2 = 1 THEN AFSMC ELSE SMC,
     scenario |-> RunnerScenarios[(p + 1) \div 2]]

\* the line printed when a scenario starts
RunningLine(scen) == <<"Running", scen, "(nominal fallback)...">>

\* the case argument of run_batch_test
RunnerCases ==
    {[x_ref0 |-> Q, y_ref0 |-> 0, theta_ref0 |-> PI \div 3,
      x0 |-> Q \div 2, y0 |-> 0, theta0 |-> PI \div 3,
      v_cmd |-> vc, t_end |-> tm[1], dt |-> tm[2]] :
        vc \in {Q \div 2, (5 * Q) \div 2},
        tm \in {<<2 * Q, Q \div 2>>, <<Q, Q \div 5>>}}

\* the arguments simulate_case1_fallback passes on to simulate_case1
RunnerCfg(m, c) ==
    [fn |-> "simulate_case1", scenario |-> "nominal", mode |-> m, ctrl |-> DefaultCtrl,
     case |-> c, robot |-> DefaultRobot, motor |-> DefaultMotor]

InitRunner ==
    /\ call = FallbackCall(1)
    /\ ret = <<>>
    /\ pc = "start"
    /\ cfg \in {RunnerCfg(AFSMC, c) : c \in RunnerCases}
    /\ n_steps = 0 /\ k = 0
    /\ t = <<>> /\ x = <<>> /\ y = <<>> /\ theta = <<>>
    /\ x_ref = <<>> /\ y_ref = <<>> /\ theta_ref = <<>>
    /\ e_x = <<>> /\ e_y = <<>> /\ e_theta = <<>>
    /\ v = <<>> /\ omega_cmd = <<>> /\ s_hist = <<>> /\ beta_hist = <<>>
    /\ int_e_theta = 0 /\ prev_y_e = 0 /\ prev_e_theta = 0
    /\ v_state = 0 /\ v_dot = 0
    /\ rng = RngSeed(42)
    /\ stdout = <<RunningLine(RunnerScenarios[1])>>
    /\ result = <<>>
    /\ history = <<>>

\* simulate_case1_fallback after simulate_case1 returned: res["scenario"] =
\* scenario writes into the dict the simulation returned, and that dict is
\* what the fallback returns
simulate_case1_fallback ==
    /\ call.fn = "simulate_case1_fallback"
    /\ ret = <<>>
    /\ pc = "done"
    /\ result[1].ok
    /\ result' = <<Ret([result[1].val EXCEPT !.scenario = <<call.scenario>>])>>
    /\ ret' = result'
    /\ UNCHANGED <<call, pc, cfg, n_steps, k, arrays, loopVars, rng, stdout, history>>

\* run_batch_test keeps the bundle for the metrics and makes its next call
run_batch_test ==
    /\ call.fn = "simulate_case1_fallback"
    /\ ret # <<>>
    /\ Len(history) + 1 < 2 * Len(RunnerScenarios)
    /\ history' = Append(history, [cfg |-> cfg, label |-> call.scenario, result |-> ret[1]])
    /\ call' = FallbackCall(Len(history) + 2)
    /\ ret' = <<>>
    /\ cfg' = [cfg EXCEPT !.mode = call'.mode]
    /\ stdout' = IF call'.scenario # call.scenario
                  THEN Append(stdout, RunningLine(call'.scenario))
                  ELSE stdout
    /\ pc' = "start"
    /\ n_steps' = 0 /\ k' = 0
    /\ t' = <<>> /\ x' = <<>> /\ y' = <<>> /\ theta' = <<>>
    /\ x_ref' = <<>> /\ y_ref' = <<>> /\ theta_ref' = <<>>
    /\ e_x' = <<>> /\ e_y' = <<>> /\ e_theta' = <<>>
    /\ v' = <<>> /\ omega_cmd' = <<>> /\ s_hist' = <<>> /\ beta_hist' = <<>>
    /\ int_e_theta' = 0 /\ prev_y_e' = 0 /\ prev_e_theta' = 0
    /\ v_state' = 0 /\ v_dot' = 0
    /\ result' = <<>>
    /\ UNCHANGED rng

NextRunner ==
    \/ Begin_case1
    \/ Step_case1
    \/ Return
    \/ simulate_case1_fallback
    \/ run_batch_test

SpecRunner == InitRunner /\ [][NextRunner]_vars

\* ------------------------------------------------------------------------
\* Claims about a simulation run (checked under Spec)
\* ------------------------------------------------------------------------

Allocated == pc \in {"loop", "done"} /\ n_steps >= 1

\* the run returned a result bundle
Returned == pc = "done" /\ result[1].ok

\* the case configuration is valid: dt > 0 and t_end > 0
ValidTiming == cfg.case.dt > 0 /\ cfg.case.t_end > 0

\* the pose indices the integrator has written so far
Integrated == {i \in 1..(n_steps - 1) : i < k}

\* the indices whose heading error the error transform has written so far
ErrWritten ==
    {i \in 0..(n_steps - 1) : i < k - 1 \/ (pc = "done" /\ i = n_steps - 1 /\ result[1].ok)}

\* C1 as stated: for a valid configuration every heading theta[k], k >= 1,
\* stored by the integrator lies in (-pi, pi]: -pi itself is never produced.
C1_HeadingInUpperClosedInterval ==
    (Allocated /\ ValidTiming) =>
        \A i \in Integrated : -PI < theta[i] /\ theta[i] <= PI

\* C1 amended: every value returned by wrap_angle, hence every heading
\* theta[k], k >= 1, and every heading error stored by a run, lies in
\* [-pi, pi): +pi is never produced, and an integrator input of exactly +pi
\* is stored as -pi.
C1_HeadingInLowerClosedInterval ==
    Allocated =>
        /\ \A i \in Integrated :
              /\ -PI <= theta[i] /\ theta[i] < PI
              /\ theta[i - 1] + Mul(omega_cmd[i - 1], cfg.case.dt) = PI => theta[i] = -PI
        /\ \A i \in ErrWritten : -PI <= e_theta[i] /\ e_theta[i] < PI
        /\ cfg.fn # "simulate_case1" => (-PI <= theta[0] /\ theta[0] < PI)

C1_Witness ==
    /\ Returned
    /\ ValidTiming
    /\ cfg.case.theta0 = PI
    /\ \E i \in Integrated :
          /\ theta[i - 1] + Mul(omega_cmd[i - 1], cfg.case.dt) = PI
          /\ theta[i] = -PI

\* C2: after every actuator update, in every simulation variant and scenario,
\* 0 <= v_state <= v_max and -a_max <= v_dot <= a_max whenever v_max > 0 and
\* a_max > 0; every recorded v[k] lies in [0, v_max].
C2_ActuatorSaturation ==
    (Allocated /\ cfg.motor.v_max > 0 /\ cfg.motor.a_max > 0) =>
        /\ 0 <= v_state /\ v_state <= cfg.motor.v_max
        /\ -cfg.motor.a_max <= v_dot /\ v_dot <= cfg.motor.a_max
        /\ \A i \in 0..(n_steps - 1) : 0 <= v[i] /\ v[i] <= cfg.motor.v_max

C2_Witness ==
    /\ pc = "loop"
    /\ k > 1
    /\ cfg.scenario = "payload_20"
    /\ v_state = cfg.motor.v_max
    /\ v_dot = cfg.motor.a_max
    /\ v[k - 1] = cfg.motor.v_max

\* C4 as stated: for every valid case configuration (dt > 0, t_end > 0,
\* horizons with t_end < dt included) a run given an unknown mode ends in the
\* invalid-mode error and never returns a result bundle.
C4_UnknownModeNeverReturns ==
    (/\ pc = "done"
     /\ ValidTiming
     /\ Upper(cfg.mode) \notin {SMC, AFSMC}) => result[1] = UnknownModeError

\* C5 as stated: a case configuration with dt <= 0 or t_end <= 0 is rejected
\* with an error before any integration step, and no result bundle (not even
\* a one-sample bundle) is returned.
C5_InvalidTimingRejected ==
    (pc = "done" /\ (cfg.case.dt <= 0 \/ cfg.case.t_end <= 0)) =>
        (~result[1].ok /\ k = 0)

\* C6 as stated: a ControllerParams whose HFN breakpoints are not six values
\* in non-decreasing order is rejected with an error before the first
\* simulation step, in SMC mode as well as in AFSMC mode, and no result
\* bundle is returned (stated for the valid horizons of at least one step).
C6_MalformedBreakpointsRejected ==
    (/\ pc = "done"
     /\ ValidTiming
     /\ cfg.case.t_end >= cfg.case.dt
     /\ Upper(cfg.mode) \in {SMC, AFSMC}
     /\ ~(Len(cfg.ctrl.hfn_breakpoints) = 6 /\ IsSorted(cfg.ctrl.hfn_breakpoints)))
        => (~result[1].ok /\ k = 0)

\* the integral of the heading error after the step that wrote index i
RECURSIVE IntAt(_)
IntAt(i) == IF i < 0 THEN 0 ELSE IntAt(i - 1) + Mul(e_theta[i], cfg.case.dt)

\* index i of the three control series holds a triple compute_omega returns on
\* the error state of index i: s is the sliding surface of the recorded errors,
\* beta is the gain of the mode, omega is omega_eq minus the switching term
ControllerTripleAt(i) ==
    /\ s_hist[i] = SlidingSurface(e_y[i], e_theta[i], IntAt(i), cfg.ctrl)
    /\ Upper(cfg.mode) = SMC => beta_hist[i] = cfg.ctrl.beta_max
    /\ Upper(cfg.mode) = AFSMC =>
          (cfg.ctrl.beta_min <= beta_hist[i] /\ beta_hist[i] <= cfg.ctrl.beta_max)
    /\ omega_cmd[i] = OmegaEq(cfg.fn, cfg.case, e_y[i])
                        - Mul(beta_hist[i], Tanh(Div(s_hist[i], cfg.ctrl.delta)))

\* C13 as stated: after a run with n_steps >= 2, every index 0..n_steps-1 of
\* omega, s and beta (the last one included) holds the triple of a
\* compute_omega call on the error state of that index; none is returned, or
\* read by the wheel mapper, while still holding its allocation value.
C13_EveryIndexHoldsControllerTriple ==
    (Returned /\ ValidTiming /\ n_steps >= 2) =>
        \A i \in 0..(n_steps - 1) :
            /\ ControllerTripleAt(i)
            /\ result[1].val.beta[i] = beta_hist[i]
            /\ result[1].val.w_left[i] = WheelLeft(v[i], omega_cmd[i], cfg.robot)

\* the triples of the indices the loop writes, 0..n_steps-2
ControllerTriplesBeforeLast ==
    (Returned /\ ValidTiming /\ n_steps >= 2) =>
        \A i \in 0..(n_steps - 2) : ControllerTripleAt(i)

LineCase == cfg.fn \in {"simulate_case1", "simulate_case1_with_scenario"}

\* C14 as stated: in every line-case run, index 0 of the pose and reference
\* series holds the configured initial condition (the pose is compared in the
\* scenarios without sensor noise), and the error transform of the first step
\* reads these values.
C14_IndexZeroIsInitialCondition ==
    (Allocated /\ ValidTiming /\ LineCase) =>
        /\ cfg.scenario # "sensor_noise" => (x[0] = cfg.case.x0 /\ y[0] = cfg.case.y0)
        /\ x_ref[0] = cfg.case.x_ref0
        /\ y_ref[0] = cfg.case.y_ref0
        /\ theta_ref[0] = cfg.case.theta_ref0
        /\ (k >= 2 /\ cfg.scenario # "sensor_noise") =>
              /\ e_x[0] = LongErr(cfg.case.x0 - cfg.case.x_ref0,
                                  cfg.case.y0 - cfg.case.y_ref0, cfg.case.theta_ref0)
              /\ e_y[0] = LatErr(cfg.case.x0 - cfg.case.x_ref0,
                                 cfg.case.y0 - cfg.case.y_ref0, cfg.case.theta_ref0)

\* what holds in simulate_case1 alone
IndexZeroInCase1 ==
    (cfg.fn = "simulate_case1") => C14_IndexZeroIsInitialCondition

\* ------------------------------------------------------------------------
\* Claims about successive runs (checked under SpecBatch)
\* ------------------------------------------------------------------------

\* the earlier runs of this process that had the arguments of the current one
SameArguments == {j \in 1..Len(history) : history[j].cfg = cfg}

\* C15 as stated: a run's outcome (any mode, any scenario, sensor_noise
\* included) is the same whether or not another run was executed before it:
\* two runs with the same arguments end in the same result bundle.
C15_RunsShareNoState ==
    pc = "done" => \A j \in SameArguments : history[j].result = result[1]

\* C16: two runs of the nominal scenario with identical arguments produce
\* identical values at every index of every series of the result bundle, for
\* simulate_case1, simulate_case2 and simulate_case1_with_scenario("nominal").
C16_NominalReproducible ==
    (pc = "done" /\ cfg.scenario = "nominal") =>
        \A j \in SameArguments : history[j].result = result[1]

C16_Witness ==
    /\ pc = "done"
    /\ cfg.fn = "simulate_case1_with_scenario"
    /\ cfg.scenario = "nominal"
    /\ result[1].ok
    /\ rng # RngSeed(42)
    /\ \E j \in SameArguments : history[j].result = result[1]

\* ------------------------------------------------------------------------
\* Claims about the circle case and the feedforward rate (checked under Spec)
\* ------------------------------------------------------------------------

CircleCase == cfg.fn = "simulate_case2"

\* the indices whose controller triple the loop has written so far
CtrlWritten == {i \in 0..(n_steps - 2) : i < k - 1}

\* the feedforward rate behind the recorded triple of index i: omega_cmd plus
\* the switching term
FeedforwardAt(i) ==
    omega_cmd[i] + Mul(beta_hist[i], Tanh(Div(s_hist[i], cfg.ctrl.delta)))

\* C17 as stated: in the circle case the feedforward rate handed to the control
\* law is case.v_cmd / R with R = 4, and the actuator's reference speed is
\* case.v_cmd, for every configured v_cmd.
C17_CircleUsesConfiguredSpeed ==
    (Allocated /\ ValidTiming /\ CircleCase /\ cfg.ctrl.delta > 0) =>
        /\ \A i \in CtrlWritten : FeedforwardAt(i) = Div(cfg.case.v_cmd, RCurve)
        /\ k >= 2 =>
              v[1] = Actuator(0, 0, cfg.case.v_cmd, cfg.motor, cfg.case.dt).v_state

\* what holds when the configured speed is the built-in 2.5
CircleAtPaperSpeed ==
    (cfg.case.v_cmd = VgCircle) => C17_CircleUsesConfiguredSpeed

\* C18 as stated: in the circle case every reference heading theta_ref[k] is
\* the tangent angle wrapped by the angle normalizer into the interval from
\* -pi to pi (either end allowed here).
C18_CircleHeadingNormalized ==
    (Allocated /\ ValidTiming /\ CircleCase) =>
        \A i \in 0..(n_steps - 1) : -PI <= theta_ref[i] /\ theta_ref[i] <= PI

\* distance of the configured initial reference point from the origin
RefNorm == Hypot(cfg.case.x_ref0, cfg.case.y_ref0)

\* direction of the configured initial reference point
RefDirection == Atan2(cfg.case.y_ref0, cfg.case.x_ref0)

\* the run got past the projection step of simulate_case2
Projected == CircleCase /\ cfg.case.dt # 0 /\ NSteps(cfg.case) >= 0 /\ pc # "start"

OnCircleReached ==
    /\ Allocated
    /\ CircleCase
    /\ RefNorm = RCurve
    /\ stdout = <<>>

\* C20 as stated: in every line-case run (simulate_case1 and
\* simulate_case1_with_scenario, every scenario) the feedforward rate handed
\* to the control law is 0 at every step, so omega_cmd = -beta_eff*tanh(s/delta).
C20_LineFeedforwardIsZero ==
    (Allocated /\ ValidTiming /\ LineCase /\ cfg.ctrl.delta > 0) =>
        \A i \in CtrlWritten :
            omega_cmd[i] = - Mul(beta_hist[i], Tanh(Div(s_hist[i], cfg.ctrl.delta)))

\* what holds in simulate_case1 alone
LineFeedforwardInCase1 ==
    (cfg.fn = "simulate_case1") => C20_LineFeedforwardIsZero

\* ------------------------------------------------------------------------
\* Claims about the batch runner (checked under SpecRunner)
\* ------------------------------------------------------------------------

\* C21 as stated: once a simulation function has returned its result bundle,
\* no step of the program adds, removes or overwrites a key or a series
\* element of it: the bundle stays exactly the one the simulation returned.
C21_BundleNeverMutated ==
    [][(pc = "done" /\ pc' = "done" /\ result # <<>>) => result' = result]_vars

\* a fallback call has returned its bundle
FallbackReturned == call.fn = "simulate_case1_fallback" /\ ret # <<>> /\ ret[1].ok

\* C22 as stated: the run the batch labels with a scenario has that scenario's
\* perturbation applied: its first speed sample comes from the motor update of
\* that scenario (acceleration divided by 1.2 for payload_20, the sinusoidal
\* disturbance added for external_dist), and the sensor_noise run has drawn
\* from the seeded generator.
C22_BatchAppliesScenarioProfiles ==
    FallbackReturned =>
        /\ ret[1].val.v[1] =
              ActuatorScenario(0, 0, cfg.case.v_cmd, cfg.motor, cfg.case.dt,
                               call.scenario, ret[1].val.t[1]).v_state
        /\ call.scenario = "sensor_noise" => rng # RngSeed(42)

\* what holds for the runs labelled nominal
BatchNominalProfile ==
    call.scenario = "nominal" => C22_BatchAppliesScenarioProfiles

\* ------------------------------------------------------------------------
\* Claims about the loop body (checked under Spec)
\* ------------------------------------------------------------------------

\* the Case 1 example configuration, past its first step
ExampleCase1 ==
    /\ Allocated
    /\ ValidTiming
    /\ k >= 2
    /\ cfg.fn = "simulate_case1"
    /\ cfg.mode = SMC
    /\ cfg.case.x_ref0 = Q /\ cfg.case.y_ref0 = 0 /\ cfg.case.theta_ref0 = PI \div 3
    /\ cfg.case.x0 = Q \div 2 /\ cfg.case.y0 = 0 /\ cfg.case.theta0 = PI \div 3

\* the lateral projection of (x0 - x_ref0, y0 - y_ref0) into the theta_ref0 frame
InitialLateralProjection ==
    - Mul(cfg.case.x0 - cfg.case.x_ref0, Sin(cfg.case.theta_ref0))
    + Mul(cfg.case.y0 - cfg.case.y_ref0, Cos(cfg.case.theta_ref0))

\* C23 as stated: for the Case 1 example configuration the recorded e_y[0] is
\* the lateral projection and is approximately -0.433, a negative value.
C23_InitialLateralErrorNegative ==
    ExampleCase1 =>
        /\ e_y[0] = InitialLateralProjection
        /\ e_y[0] < 0
        /\ Abs(e_y[0] + (433 * Q) \div 1000) <= 2

\* C23 amended: for the Case 1 example configuration the recorded e_y[0] is
\* the lateral projection -dx*sin(theta_ref0) + dy*cos(theta_ref0) with
\* dx = -0.5, dy = 0, which is approximately +0.433, a positive value.
C23_InitialLateralErrorPositive ==
    ExampleCase1 =>
        /\ e_y[0] = InitialLateralProjection
        /\ e_y[0] > 0
        /\ Abs(e_y[0] - (433 * Q) \div 1000) <= 2

C23_Witness ==
    /\ ExampleCase1
    /\ pc = "done"
    /\ result[1].ok
    /\ result[1].val.e_y[0] > 0

\* the pose entries the loop has not produced yet still hold np.zeros' value
NotYetProduced ==
    \A j \in 0..(n_steps - 1) : j >= k /\ j >= 1 => (x[j] = 0 /\ y[j] = 0 /\ theta[j] = 0)

\* the recorded errors of the steps done so far are the transform of the pose
\* and reference entries of the same index (scenarios without sensor noise)
ErrorsFromSameIndex ==
    \A i \in 0..(n_steps - 2) : (i < k - 1 /\ cfg.scenario # "sensor_noise") =>
        /\ e_theta[i] = wrap_angle(theta[i] - theta_ref[i])
        /\ e_x[i] = LongErr(x[i] - x_ref[i], y[i] - y_ref[i], theta_ref[i])
        /\ e_y[i] = LatErr(x[i] - x_ref[i], y[i] - y_ref[i], theta_ref[i])

\* the entries of index 0, read by the first step, are the initial condition
\* (the circle case fills its whole reference before the loop)
FirstReadIsInitialCondition ==
    /\ cfg.scenario # "sensor_noise" => (x[0] = cfg.case.x0 /\ y[0] = cfg.case.y0)
    /\ LineCase =>
          /\ x_ref[0] = cfg.case.x_ref0
          /\ y_ref[0] = cfg.case.y_ref0
          /\ theta_ref[0] = cfg.case.theta_ref0

\* C25 as stated: at loop step k the error transform and the control law read
\* only pose and reference entries of index k-1, which were written at an
\* earlier step or are the initial condition, and pose entry k is written only
\* after the control law of that step has returned.
C25_StepReadsEarlierEntriesOnly ==
    (Allocated /\ ValidTiming) =>
        /\ NotYetProduced
        /\ ErrorsFromSameIndex
        /\ FirstReadIsInitialCondition

\* the ordering part alone, which holds in the three variants
StepOrderInEveryVariant ==
    (Allocated /\ ValidTiming) => (NotYetProduced /\ ErrorsFromSameIndex)

\* the whole of C25 in simulate_case1 and simulate_case2
StepReadsInCase1AndCase2 ==
    cfg.fn \in {"simulate_case1", "simulate_case2"} => C25_StepReadsEarlierEntriesOnly

\* C26: each kinematic step computes x[k] = x[k-1] + v*cos(theta[k-1])*dt,
\* y[k] = y[k-1] + v*sin(theta[k-1])*dt and theta[k] = wrap(theta[k-1] +
\* omega*dt), with v the actuator's saturated speed recorded as v[k] (not the
\* commanded speed) and omega the turn rate recorded for index k-1.
C26_KinematicStepUsesActuatorSpeed ==
    Allocated =>
        \A i \in Integrated :
            /\ x[i] = x[i - 1] + Mul(Mul(v[i], Cos(theta[i - 1])), cfg.case.dt)
            /\ y[i] = y[i - 1] + Mul(Mul(v[i], Sin(theta[i - 1])), cfg.case.dt)
            /\ theta[i] = wrap_angle(theta[i - 1] + Mul(omega_cmd[i - 1], cfg.case.dt))

C26_Witness ==
    /\ Returned
    /\ ValidTiming
    /\ n_steps >= 3
    /\ cfg.case.v_cmd > cfg.motor.v_max
    /\ v[1] > 0
    /\ v[1] < cfg.case.v_cmd
    /\ x[1] # x[0] + Mul(Mul(cfg.case.v_cmd, Cos(theta[0])), cfg.case.dt)
    /\ omega_cmd[0] # 0
    /\ theta[1] # theta[0]

\* the backward difference of a recorded series at index i, 0 standing for
\* the sample before the first
DiffAt(e, i) == Div(e[i] - (IF i = 0 THEN 0 ELSE e[i - 1]), cfg.case.dt)

\* C27: the derivatives handed to the control law at step k >= 2 are
\* (e[k-1] - e[k-2]) / dt, the first step uses 0 as the previous sample, and
\* the previous-sample accumulators are updated once per step, after the
\* difference is taken: they hold the sample of the last completed step, and
\* the gain recorded in AFSMC mode is the one of these derivatives (the
\* scenario with sensor noise adds its noise to them).
C27_BackwardDifferenceDerivatives ==
    (Allocated /\ ValidTiming /\ (pc = "loop" \/ result[1].ok)) =>
        /\ k = 1 => (prev_y_e = 0 /\ prev_e_theta = 0)
        /\ k >= 2 => (prev_y_e = e_y[k - 2] /\ prev_e_theta = e_theta[k - 2])
        /\ \A i \in CtrlWritten :
              (Upper(cfg.mode) = AFSMC /\ cfg.scenario # "sensor_noise") =>
                  Ret(beta_hist[i]) =
                      hfn_beta(Hypot(e_y[i], e_theta[i]),
                               Hypot(DiffAt(e_y, i), DiffAt(e_theta, i)), cfg.ctrl, 1)

C27_Witness ==
    /\ Returned
    /\ ValidTiming
    /\ n_steps >= 3
    /\ cfg.mode = AFSMC
    /\ cfg.scenario # "sensor_noise"
    /\ prev_y_e = e_y[n_steps - 2]
    /\ e_y[0] # 0
    /\ e_y[1] # e_y[0]
    /\ DiffAt(e_y, 1) # DiffAt(e_y, 0)

\* the configured initial reference point is the origin
RefAtOrigin == cfg.case.x_ref0 = 0 /\ cfg.case.y_ref0 = 0

\* C28: in the circle case an initial reference point at the origin does not
\* abort the run: the scale factor 1 is used, no division by zero happens, the
\* warning is printed, and the
\* run completes and returns a bundle whose reference starts at phase
\* phi0 = atan2(0, 0) = 0, i.e. at (R, 0) (for a valid horizon, a known mode
\* and six breakpoints).
C28_OriginReferenceRecovers ==
    (CircleCase /\ RefAtOrigin /\ ValidTiming) =>
        /\ ProjectionScale(cfg.case) = Q
        /\ Phi0(cfg.case) = Atan2(0, 0)
        /\ pc # "start" => stdout = <<ProjectionWarning>>
        /\ pc = "done" => result[1] # Raise("ZeroDivisionError")
        /\ (/\ pc = "done"
            /\ Upper(cfg.mode) \in {SMC, AFSMC}
            /\ Len(cfg.ctrl.hfn_breakpoints) = 6) =>
              /\ result[1].ok
              /\ result[1].val.x_ref[0] = Mul(RCurve, Cos(0))
              /\ result[1].val.y_ref[0] = Mul(RCurve, Sin(0))
              /\ result[1].val.theta_ref[0] = HalfPi

C28_Witness ==
    /\ Returned
    /\ CircleCase
    /\ RefAtOrigin
    /\ ValidTiming
    /\ n_steps >= 3
    /\ stdout = <<ProjectionWarning>>
    /\ result[1].val.x_ref[0] = RCurve
    /\ result[1].val.y_ref[0] = 0

\* C30 as stated: for every valid configuration (dt > 0, t_end > 0), t_end a
\* multiple of dt or not, the run has floor(t_end / dt) + 1 samples and the
\* recorded time is t[k] = k * dt for every k.
C30_TimeGridStepIsDt ==
    (Allocated /\ ValidTiming) =>
        /\ n_steps = (cfg.case.t_end \div cfg.case.dt) + 1
        /\ \A i \in 0..(n_steps - 1) : t[i] = i * cfg.case.dt

\* what holds when t_end is a multiple of dt
TimeGridForWholeMultiples ==
    (cfg.case.dt > 0 /\ cfg.case.t_end % cfg.case.dt = 0) => C30_TimeGridStepIsDt

=============================================================================
